---- MODULE Spec2Model ----
(***************************************************************************)
(* Multi-worker GeoJSON job queue of qgis-workflow.                        *)
(*                                                                         *)
(* Several OS processes run run() on the same folder.  They share two     *)
(* files: the ledger geojson_jobs.txt and the lock geojson_jobs.lock.      *)
(* The ledger is a text file, modelled as a sequence of characters.       *)
(* Formatting and parsing of a line are modelled as the code does them     *)
(* (f-string, readlines, strip, split on the first comma).  A write of the *)
(* ledger is open(path, "w"), which truncates the file and leaves the      *)
(* writer at offset 0, followed by the buffered writes and the close,      *)
(* which put the new text at offset 0 over whatever the file holds by      *)
(* then; the two are separate steps of a worker.  The ledgers of the model *)
(* are far smaller than the writer's buffer, so the text reaches the file  *)
(* in one piece.                                                           *)
(*                                                                         *)
(* The queue functions are the same in both scripts; the line numbers      *)
(* refer to new-qgis-workflow-8-8-25.py.  The body of process_geojson in   *)
(* that script is read with the block structure of the older script: one   *)
(* try, whose except clause catches every failure of the chain and whose   *)
(* finally clause always runs.                                             *)
(***************************************************************************)
EXTENDS Naturals, Integers, Sequences, FiniteSets, Bags, TLC

\* ------------------------------------------------------------------------
\* Bounds of the model
\* ------------------------------------------------------------------------
\* Largest number of *.geojson files in the selected folder.
MaxFiles == 2

\* Number of failed 0.25 s polls after which atomic_lock raises
\* (timeout / 0.25 in the code, 120 for the default timeout of 30 s).
TimeoutPolls == 2

\* The worker processes started on the folder.
Workers == {"w1", "w2"}

\* File names a folder may hold (base names, as character sequences; the
\* common ending .geojson is left out).  One name contains a comma.
FileNames == { <<"a">>, <<"b">>, <<"a", ",", "b">> }

\* ------------------------------------------------------------------------
\* Configuration constants of the program
\* ------------------------------------------------------------------------
JOB_STATUS_PENDING == <<"P", "E", "N", "D", "I", "N", "G">>
JOB_STATUS_IN_PROGRESS == <<"I", "N", "_", "P", "R", "O", "G", "R", "E", "S", "S">>
JOB_STATUS_DONE == <<"D", "O", "N", "E">>

Whitespace == {" ", "\n"}

VARIABLES
    files,          \* glob result: the folder's *.geojson base names, in enumeration order
    ledgerExists,   \* os.path.exists(geojson_jobs.txt)
    ledger,         \* content of geojson_jobs.txt: a sequence of characters
    lockFile,       \* os.path.exists(geojson_jobs.lock)
    pc,             \* position of each worker in run()
    waited,         \* atomic_lock: failed polls so far
    new_lines,      \* claim_next_job / mark_job_done: the lines about to be written
    claimed_file,   \* claim_next_job: the claimed name, or None
    geojson_file,   \* run: the path returned by claim_next_job
    failed,         \* process_geojson: a step of the chain failed for the current job
    rendered,       \* process_geojson: the tile renderer returned without error
    pruned,         \* process_geojson: clean_tiles returned for the current job
    holding,        \* workers that returned from atomic_lock and have not called atomic_unlock
    buildResult,    \* what build_job_list of the worker just did: "none", "noop", "wrote"
    handedOut,      \* bag of the names returned by claim_next_job so far
    seen,           \* per file name: the statuses of its entries in the last written ledger that held it
    stuck           \* the names a worker held, claimed and not yet handed to mark_job_done, when it died

\* The calculations of process_geojson, each followed on its own inputs.
VARIABLES
    feat,           \* get_group_key: the attributes of the feature
    group_key,      \* get_group_key: the returned key, Unset before the call
    dissolved,      \* the outline layer as dissolved and split, before it is cleaned
    outline_layer,  \* the features of the outline layer after cleaning
    clean_msg,      \* the message the cleaner returned
    cleaner,        \* the cleaner that ran: "none" before the call
    tile_files,     \* clean_tiles: the files of the output directory, in walk order
    alpha_only,     \* whether getbbox of the installed Pillow looks at the alpha band only
    pngs,           \* clean_tiles: the positions in tile_files of the .png paths
    batch_i,        \* clean_tiles: i of the loop over the batches
    batch,          \* clean_tiles: the paths of the current batch
    tile_result,    \* per path of batch: Submitted, Running, or what process_tile returned
    examined,       \* per file: the number of calls of process_tile on it so far
    removed,        \* clean_tiles: the number it prints
    pruner          \* position of clean_tiles: "none", "os.walk", "batch", "pool", "returned"

\* process_geojson, the estimate of the number of tiles
VARIABLES
    extent,         \* xmin, xmax, ymin, ymax of the outline layer, in degrees
    zoom_min,       \* compute_total_tiles_wgs84: zoom_min
    zoom_max,       \* compute_total_tiles_wgs84: zoom_max
    tiles_est       \* what compute_total_tiles_wgs84 returned or raised

groupKeyVars == <<feat, group_key>>
outlineVars == <<dissolved, outline_layer, clean_msg, cleaner>>
tileVars == <<tile_files, alpha_only, pngs, batch_i, batch, tile_result, examined, removed,
             pruner>>
tileCountVars == <<extent, zoom_min, zoom_max, tiles_est>>
calcVars == <<groupKeyVars, outlineVars, tileVars, tileCountVars>>

vars == <<files, ledgerExists, ledger, lockFile, pc, waited, new_lines, claimed_file,
          geojson_file, failed, rendered, pruned, holding, buildResult, handedOut, seen, stuck,
          calcVars>>

\* ------------------------------------------------------------------------
\* Python helpers
\* ------------------------------------------------------------------------
None == [isNone |-> TRUE, v |-> <<>>]
Some(x) == [isNone |-> FALSE, v |-> x]

RECURSIVE lstrip(_)
lstrip(s) == IF s # <<>> /\ Head(s) \in Whitespace THEN lstrip(Tail(s)) ELSE s

RECURSIVE rstrip(_)
rstrip(s) == IF s # <<>> /\ s[Len(s)] \in Whitespace THEN rstrip(SubSeq(s, 1, Len(s) - 1)) ELSE s

\* str.strip()
strip(s) == rstrip(lstrip(s))

\* str.split(",", 1): one piece when there is no comma, else the text before
\* the first comma and the text after it.
split_comma_1(text) ==
    CHOOSE parts \in
        {LET commas == {i \in 1..Len(s) : s[i] = ","}
         IN IF commas = {} THEN <<s>>
            ELSE LET k == CHOOSE i \in commas : \A j \in commas : i <= j
                 IN <<SubSeq(s, 1, k - 1), SubSeq(s, k + 1, Len(s))>> : s \in {text}} : TRUE

\* f"{fn},{status}\n"
format_line(fn, status) == fn \o <<",">> \o status \o <<"\n">>

\* file.readlines(): the lines of the text, each with its terminator; a
\* last line without terminator is a line too.
RECURSIVE readlines_from(_, _, _)
readlines_from(text, start, i) ==
    IF i > Len(text)
    THEN (IF start > Len(text) THEN <<>> ELSE <<SubSeq(text, start, Len(text))>>)
    ELSE IF text[i] = "\n"
         THEN <<SubSeq(text, start, i)>> \o readlines_from(text, i + 1, i + 1)
         ELSE readlines_from(text, start, i + 1)

readlines(text) == readlines_from(text, 1, 1)

\* file.writelines(lines): the text handed to the file.
RECURSIVE writelines(_)
writelines(lines) ==
    IF lines = <<>> THEN <<>> ELSE Head(lines) \o writelines(Tail(lines))

\* The flush at close of a file opened with "w": the text goes to offset 0;
\* what the file holds beyond the end of the text stays.
file_write(content, text) ==
    text \o SubSeq(content, Len(text) + 1, Len(content))

\* os.path.join(main_folder, name)
path_join(name) == <<"folder", "/">> \o name

\* os.path.basename(path): the text after the last "/"
basename(path) ==
    LET slashes == {i \in 1..Len(path) : path[i] = "/"}
    IN IF slashes = {} THEN path
       ELSE LET k == CHOOSE i \in slashes : \A j \in slashes : j <= i
            IN SubSeq(path, k + 1, Len(path))

\* ------------------------------------------------------------------------
\* Ledger algorithms
\* ------------------------------------------------------------------------
\* build_job_list: the lines written for the globbed files.
RECURSIVE pending_lines(_)
pending_lines(fs) ==
    IF fs = <<>> THEN <<>>
    ELSE <<format_line(Head(fs), JOB_STATUS_PENDING)>> \o pending_lines(Tail(fs))

\* claim_next_job: the loop over the lines read.  The result holds the new
\* lines, the claimed name and whether the unpacking of split raised.
RECURSIVE claim_scan(_, _, _)
claim_scan(lines, acc, claimed) ==
    IF lines = <<>> THEN [new_lines |-> acc, claimed_file |-> claimed, error |-> FALSE]
    ELSE LET line == Head(lines)
             parts == split_comma_1(strip(line))
         IN IF Len(parts) # 2
            THEN [new_lines |-> acc, claimed_file |-> claimed, error |-> TRUE]
            ELSE LET fn == parts[1]
                     status == parts[2]
                 IN IF status = JOB_STATUS_PENDING /\ claimed.isNone
                    THEN claim_scan(Tail(lines),
                                    Append(acc, format_line(fn, JOB_STATUS_IN_PROGRESS)),
                                    Some(fn))
                    ELSE claim_scan(Tail(lines), Append(acc, line), claimed)

\* mark_job_done: the loop over the lines read.
RECURSIVE mark_scan(_, _, _)
mark_scan(lines, acc, filename) ==
    IF lines = <<>> THEN [new_lines |-> acc, error |-> FALSE]
    ELSE LET line == Head(lines)
             parts == split_comma_1(strip(line))
         IN IF Len(parts) # 2
            THEN [new_lines |-> acc, error |-> TRUE]
            ELSE LET fn == parts[1]
                 IN IF fn = basename(filename)
                    THEN mark_scan(Tail(lines), Append(acc, format_line(fn, JOB_STATUS_DONE)), filename)
                    ELSE mark_scan(Tail(lines), Append(acc, line), filename)

\* A faulty check_all_done loop: only a PENDING line makes it answer "False".
RECURSIVE all_done_scan_pending_only(_)
all_done_scan_pending_only(lines) ==
    IF lines = <<>> THEN "True"
    ELSE LET parts == split_comma_1(strip(Head(lines)))
         IN IF Len(parts) # 2 THEN "ValueError"
            ELSE IF parts[2] = JOB_STATUS_PENDING THEN "False"
            ELSE all_done_scan_pending_only(Tail(lines))

\* check_all_done: "True", "False", or "ValueError" when a line does not unpack.
RECURSIVE all_done_scan(_)
all_done_scan(lines) ==
    IF lines = <<>> THEN "True"
    ELSE LET parts == split_comma_1(strip(Head(lines)))
         IN IF Len(parts) # 2 THEN "ValueError"
            ELSE IF parts[2] # JOB_STATUS_DONE THEN "False"
            ELSE all_done_scan(Tail(lines))

check_all_done(exists, content) ==
    IF ~exists THEN "True"
    ELSE CHOOSE r \in {all_done_scan(lines) : lines \in {readlines(content)}} : TRUE

\* ------------------------------------------------------------------------
\* The ledger as the data model reads it: a line is <filename>,<STATUS>\n
\* and a status holds no comma, so the status is the text after the last
\* comma and the file name the text before it.
\* ------------------------------------------------------------------------
LastComma(s) ==
    LET commas == {i \in 1..Len(s) : s[i] = ","}
    IN IF commas = {} THEN 0 ELSE CHOOSE i \in commas : \A j \in commas : j <= i

Unterminated(line) ==
    IF line # <<>> /\ line[Len(line)] = "\n" THEN SubSeq(line, 1, Len(line) - 1) ELSE line

EntryName(line) ==
    LET s == Unterminated(line) IN SubSeq(s, 1, LastComma(s) - 1)

EntryStatus(line) ==
    LET s == Unterminated(line) IN SubSeq(s, LastComma(s) + 1, Len(s))

StatusesOf(content, f) ==
    UNION {{EntryStatus(lines[i]) : i \in {j \in 1..Len(lines) : EntryName(lines[j]) = f}} :
              lines \in {readlines(content)}}

\* seen after a write of the whole content
SeenAfter(content) ==
    [f \in FileNames |->
        LET st == StatusesOf(content, f) IN IF st # {} THEN st ELSE seen[f]]

\* ------------------------------------------------------------------------
\* Initial state: run() has selected the folder in every worker; neither
\* the ledger nor the lock exists.
\* ------------------------------------------------------------------------
Folders ==
    {fs \in UNION {[1..n -> FileNames] : n \in 0..MaxFiles} :
        \A i, j \in 1..Len(fs) : i # j => fs[i] # fs[j]}

\* Values of the calculation variables while no calculation is followed.
Unset == [tag |-> "unset", s |-> <<>>, n |-> 0]

GroupKeyIdle ==
    /\ feat = Unset
    /\ group_key = Unset

OutlineIdle ==
    /\ dissolved = Unset
    /\ outline_layer = Unset
    /\ clean_msg = Unset
    /\ cleaner = "none"

TilesIdle ==
    /\ tile_files = << >>
    /\ alpha_only = TRUE
    /\ pngs = << >>
    /\ batch_i = 0
    /\ batch = << >>
    /\ tile_result = << >>
    /\ examined = << >>
    /\ removed = 0
    /\ pruner = "none"

TileCountIdle ==
    /\ extent = Unset
    /\ zoom_min = 0
    /\ zoom_max = 0
    /\ tiles_est = Unset

CalcIdle ==
    /\ GroupKeyIdle
    /\ OutlineIdle
    /\ TilesIdle
    /\ TileCountIdle

Init ==
    /\ CalcIdle
    /\ files \in Folders
    /\ ledgerExists = FALSE
    /\ ledger = <<>>
    /\ lockFile = FALSE
    /\ pc = [w \in Workers |-> "build_job_list"]
    /\ waited = [w \in Workers |-> 0]
    /\ new_lines = [w \in Workers |-> <<>>]
    /\ claimed_file = [w \in Workers |-> None]
    /\ geojson_file = [w \in Workers |-> <<>>]
    /\ failed = [w \in Workers |-> FALSE]
    /\ rendered = [w \in Workers |-> FALSE]
    /\ pruned = [w \in Workers |-> FALSE]
    /\ holding = {}
    /\ buildResult = [w \in Workers |-> "none"]
    /\ handedOut = EmptyBag
    /\ seen = [f \in FileNames |-> {}]
    /\ stuck = {}

ledgerVars == <<ledgerExists, ledger, seen>>
lockVars == <<lockFile, holding>>
jobVars == <<geojson_file, failed, rendered, pruned>>
scanVars == <<new_lines, claimed_file>>

\* ------------------------------------------------------------------------
\* build_job_list
\* ------------------------------------------------------------------------
\* A faulty build_job_list: no test for an existing ledger.
build_job_list_no_exists_check(w) ==
    /\ pc[w] = "build_job_list"
    /\ pc' = [pc EXCEPT ![w] = "build_open"]
    /\ UNCHANGED <<calcVars, files, ledgerExists, ledger, seen, lockFile, holding, waited, new_lines,
                   claimed_file, geojson_file, failed, rendered, pruned, buildResult, handedOut, stuck>>

\* os.path.exists(job_list_path): return when the ledger is there, else glob.
build_job_list_exists(w) ==
    /\ pc[w] = "build_job_list"
    /\ IF ledgerExists
       THEN /\ pc' = [pc EXCEPT ![w] = "check_all_done"]
            /\ buildResult' = [buildResult EXCEPT ![w] = "noop"]
       ELSE /\ pc' = [pc EXCEPT ![w] = "build_open"]
            /\ UNCHANGED buildResult
    /\ UNCHANGED <<calcVars, files, ledgerVars, lockVars, waited, scanVars, jobVars, handedOut, stuck>>

\* open(job_list_path, "w"): creates or truncates the ledger.
build_job_list_open(w) ==
    /\ pc[w] = "build_open"
    /\ ledgerExists' = TRUE
    /\ ledger' = <<>>
    /\ pc' = [pc EXCEPT ![w] = "build_write"]
    /\ UNCHANGED <<calcVars, files, seen, lockVars, waited, scanVars, jobVars, buildResult, handedOut, stuck>>

\* the writes of the loop reach the file, the file is closed.
build_job_list_write(w) ==
    /\ pc[w] = "build_write"
    /\ ledger' = file_write(ledger, writelines(pending_lines(files)))
    /\ seen' = SeenAfter(ledger')
    /\ buildResult' = [buildResult EXCEPT ![w] = "wrote"]
    /\ pc' = [pc EXCEPT ![w] = "check_all_done"]
    /\ UNCHANGED <<calcVars, files, ledgerExists, lockVars, waited, scanVars, jobVars, handedOut, stuck>>

\* ------------------------------------------------------------------------
\* atomic_lock / atomic_unlock
\* ------------------------------------------------------------------------
\* A faulty atomic_lock: the open lacks O_EXCL and succeeds on an existing file.
atomic_lock_not_exclusive(w, at, next) ==
    /\ pc[w] = at
    /\ lockFile' = TRUE
    /\ holding' = holding \cup {w}
    /\ pc' = [pc EXCEPT ![w] = next]
    /\ waited' = [waited EXCEPT ![w] = 0]

\* A faulty atomic_lock: on the timeout it removes the lock file it waited for
\* and takes the lock instead of raising.
atomic_lock_breaks_lock_on_timeout(w, at, next) ==
    /\ pc[w] = at
    /\ IF ~lockFile
       THEN /\ lockFile' = TRUE
            /\ holding' = holding \cup {w}
            /\ pc' = [pc EXCEPT ![w] = next]
            /\ waited' = [waited EXCEPT ![w] = 0]
       ELSE /\ waited' = [waited EXCEPT ![w] = @ + 1]
            /\ IF waited'[w] >= TimeoutPolls
               THEN /\ pc' = [pc EXCEPT ![w] = next]
                    /\ holding' = {w}
                    /\ lockFile' = TRUE
               ELSE /\ pc' = [pc EXCEPT ![w] = at]
                    /\ UNCHANGED <<lockFile, holding>>

\* One pass of the loop of atomic_lock, called at position `at`: os.open with
\* O_CREAT | O_EXCL creates the lock file and the call returns (to position
\* `next`), or the file exists, the worker sleeps, and raises once it has
\* waited for the timeout.
atomic_lock(w, at, next) ==
    /\ pc[w] = at
    /\ IF ~lockFile
       THEN /\ lockFile' = TRUE
            /\ holding' = holding \cup {w}
            /\ pc' = [pc EXCEPT ![w] = next]
            /\ waited' = [waited EXCEPT ![w] = 0]
       ELSE /\ waited' = [waited EXCEPT ![w] = @ + 1]
            /\ pc' = [pc EXCEPT ![w] = IF waited'[w] >= TimeoutPolls THEN "raised" ELSE at]
            /\ UNCHANGED <<lockFile, holding>>

\* os.remove(lock_path); a failure to remove is swallowed.
atomic_unlock(w) ==
    /\ lockFile' = FALSE
    /\ holding' = holding \ {w}

\* ------------------------------------------------------------------------
\* run: while not check_all_done(main_folder)
\* ------------------------------------------------------------------------
\* check_all_done reads the ledger without the lock.  What the previous
\* pass of the loop left behind (the path of the finished job and the record
\* of how its processing went) is not used again and is cleared here.
run_check_all_done(w) ==
    /\ pc[w] = "check_all_done"
    /\ LET r == check_all_done(ledgerExists, ledger)
       IN pc' = [pc EXCEPT ![w] = CASE r = "True" -> "exit"
                                    [] r = "False" -> "claim_next_job"
                                    [] OTHER -> "raised"]
    /\ geojson_file' = [geojson_file EXCEPT ![w] = <<>>]
    /\ failed' = [failed EXCEPT ![w] = FALSE]
    /\ rendered' = [rendered EXCEPT ![w] = FALSE]
    /\ pruned' = [pruned EXCEPT ![w] = FALSE]
    /\ buildResult' = [buildResult EXCEPT ![w] = "none"]
    /\ UNCHANGED <<calcVars, files, ledgerVars, lockVars, waited, scanVars, handedOut, stuck>>

\* ------------------------------------------------------------------------
\* claim_next_job
\* ------------------------------------------------------------------------
claim_next_job_lock(w) ==
    /\ atomic_lock(w, "claim_next_job", "claim_read")
    /\ UNCHANGED <<calcVars, files, ledgerVars, scanVars, jobVars, buildResult, handedOut, stuck>>

\* readlines and the loop that builds new_lines; an exception leaves the
\* function with the lock file in place.
claim_next_job_read(w) ==
    /\ pc[w] = "claim_read"
    /\ \E r \in {claim_scan(lines, <<>>, None) : lines \in {readlines(ledger)}} :
          IF ~ledgerExists \/ r.error
          THEN /\ pc' = [pc EXCEPT ![w] = "raised"]
               /\ UNCHANGED scanVars
          ELSE /\ new_lines' = [new_lines EXCEPT ![w] = r.new_lines]
               /\ claimed_file' = [claimed_file EXCEPT ![w] = r.claimed_file]
               /\ pc' = [pc EXCEPT ![w] = "claim_open"]
    /\ UNCHANGED <<calcVars, files, ledgerVars, lockVars, waited, jobVars, buildResult, handedOut, stuck>>

\* open(job_list_path, "w") truncates the ledger.
claim_next_job_open(w) ==
    /\ pc[w] = "claim_open"
    /\ ledgerExists' = TRUE
    /\ ledger' = <<>>
    /\ pc' = [pc EXCEPT ![w] = "claim_write"]
    /\ UNCHANGED <<calcVars, files, seen, lockVars, waited, scanVars, jobVars, buildResult, handedOut, stuck>>

\* writelines(new_lines) and close.
claim_next_job_write(w) ==
    /\ pc[w] = "claim_write"
    /\ ledger' = file_write(ledger, writelines(new_lines[w]))
    /\ seen' = SeenAfter(ledger')
    /\ pc' = [pc EXCEPT ![w] = "claim_unlock"]
    /\ UNCHANGED <<calcVars, files, ledgerExists, lockVars, waited, scanVars, jobVars, buildResult, handedOut, stuck>>

\* atomic_unlock and the return: the joined path when a name was claimed,
\* else None, on which run sleeps and goes back to the loop test.  The
\* locals of the call end with it.
claim_next_job_unlock(w) ==
    /\ pc[w] = "claim_unlock"
    /\ atomic_unlock(w)
    /\ IF ~claimed_file[w].isNone /\ claimed_file[w].v # <<>>
       THEN /\ geojson_file' = [geojson_file EXCEPT ![w] = path_join(claimed_file[w].v)]
            /\ handedOut' = handedOut (+) SetToBag({claimed_file[w].v})
            /\ pc' = [pc EXCEPT ![w] = "process_load"]
       ELSE /\ pc' = [pc EXCEPT ![w] = "check_all_done"]
            /\ UNCHANGED <<geojson_file, handedOut>>
    /\ new_lines' = [new_lines EXCEPT ![w] = <<>>]
    /\ claimed_file' = [claimed_file EXCEPT ![w] = None]
    /\ UNCHANGED <<calcVars, files, ledgerVars, waited, failed, rendered, pruned, buildResult,
                   stuck>>

\* ------------------------------------------------------------------------
\* process_geojson: every failure is caught inside the function, which
\* always ends in its finally block and returns to run.
\* ------------------------------------------------------------------------
\* QgsVectorLayer(...).isValid(): an invalid layer returns early.
process_geojson_load(w) ==
    /\ pc[w] = "process_load"
    /\ \E ok \in BOOLEAN :
          IF ok THEN /\ pc' = [pc EXCEPT ![w] = "process_outline"]
                     /\ UNCHANGED failed
                ELSE /\ pc' = [pc EXCEPT ![w] = "process_cleanup"]
                     /\ failed' = [failed EXCEPT ![w] = TRUE]
    /\ UNCHANGED <<calcVars, files, ledgerVars, lockVars, waited, scanVars, geojson_file, rendered, pruned,
                   buildResult, handedOut, stuck>>

\* memory layer with group_key, dissolve, single parts, outline cleaning;
\* an exception of any of them reaches the except clause.
process_geojson_outline(w) ==
    /\ pc[w] = "process_outline"
    /\ \E ok \in BOOLEAN :
          IF ok THEN /\ pc' = [pc EXCEPT ![w] = "process_render"]
                     /\ UNCHANGED failed
                ELSE /\ pc' = [pc EXCEPT ![w] = "process_cleanup"]
                     /\ failed' = [failed EXCEPT ![w] = TRUE]
    /\ UNCHANGED <<calcVars, files, ledgerVars, lockVars, waited, scanVars, geojson_file, rendered, pruned,
                   buildResult, handedOut, stuck>>

\* processing.run of the tile algorithm; an error skips clean_tiles.
process_geojson_render(w) ==
    /\ pc[w] = "process_render"
    /\ \E ok \in BOOLEAN :
          IF ok THEN /\ pc' = [pc EXCEPT ![w] = "process_prune"]
                     /\ rendered' = [rendered EXCEPT ![w] = TRUE]
                     /\ UNCHANGED failed
                ELSE /\ pc' = [pc EXCEPT ![w] = "process_cleanup"]
                     /\ failed' = [failed EXCEPT ![w] = TRUE]
                     /\ UNCHANGED rendered
    /\ UNCHANGED <<calcVars, files, ledgerVars, lockVars, waited, scanVars, geojson_file, pruned,
                   buildResult, handedOut, stuck>>

\* clean_tiles(output_dir) returns.
process_geojson_prune(w) ==
    /\ pc[w] = "process_prune"
    /\ pruned' = [pruned EXCEPT ![w] = TRUE]
    /\ pc' = [pc EXCEPT ![w] = "process_cleanup"]
    /\ UNCHANGED <<calcVars, files, ledgerVars, lockVars, waited, scanVars, geojson_file, failed, rendered,
                   buildResult, handedOut, stuck>>

\* the finally block; run then calls mark_job_done whatever happened.
process_geojson_cleanup(w) ==
    /\ pc[w] = "process_cleanup"
    /\ pc' = [pc EXCEPT ![w] = "mark_job_done"]
    /\ UNCHANGED <<calcVars, files, ledgerVars, lockVars, waited, scanVars, jobVars, buildResult, handedOut, stuck>>

\* ------------------------------------------------------------------------
\* mark_job_done
\* ------------------------------------------------------------------------
mark_job_done_lock(w) ==
    /\ atomic_lock(w, "mark_job_done", "mark_read")
    /\ UNCHANGED <<calcVars, files, ledgerVars, scanVars, jobVars, buildResult, handedOut, stuck>>

mark_job_done_read(w) ==
    /\ pc[w] = "mark_read"
    /\ \E r \in {mark_scan(lines, <<>>, geojson_file[w]) : lines \in {readlines(ledger)}} :
          IF ~ledgerExists \/ r.error
          THEN /\ pc' = [pc EXCEPT ![w] = "raised"]
               /\ UNCHANGED new_lines
          ELSE /\ new_lines' = [new_lines EXCEPT ![w] = r.new_lines]
               /\ pc' = [pc EXCEPT ![w] = "mark_open"]
    /\ UNCHANGED <<calcVars, files, ledgerVars, lockVars, waited, claimed_file, jobVars, buildResult, handedOut, stuck>>

mark_job_done_open(w) ==
    /\ pc[w] = "mark_open"
    /\ ledgerExists' = TRUE
    /\ ledger' = <<>>
    /\ pc' = [pc EXCEPT ![w] = "mark_write"]
    /\ UNCHANGED <<calcVars, files, seen, lockVars, waited, scanVars, jobVars, buildResult, handedOut, stuck>>

mark_job_done_write(w) ==
    /\ pc[w] = "mark_write"
    /\ ledger' = file_write(ledger, writelines(new_lines[w]))
    /\ seen' = SeenAfter(ledger')
    /\ pc' = [pc EXCEPT ![w] = "mark_unlock"]
    /\ UNCHANGED <<calcVars, files, ledgerExists, lockVars, waited, scanVars, jobVars, buildResult, handedOut, stuck>>

mark_job_done_unlock(w) ==
    /\ pc[w] = "mark_unlock"
    /\ atomic_unlock(w)
    /\ pc' = [pc EXCEPT ![w] = "check_all_done"]
    /\ new_lines' = [new_lines EXCEPT ![w] = <<>>]
    /\ UNCHANGED <<calcVars, files, ledgerVars, waited, claimed_file, jobVars, buildResult, handedOut, stuck>>

\* ------------------------------------------------------------------------
\* A worker process that has ended (loop left, or an exception left run) is
\* started again on the same folder: a resumed run.
\* ------------------------------------------------------------------------
\* A faulty start of the script: it removes a lock file it finds.
run_again_removes_lock(w) ==
    /\ pc[w] \in {"exit", "raised", "dead"}
    /\ pc' = [pc EXCEPT ![w] = "build_job_list"]
    /\ waited' = [waited EXCEPT ![w] = 0]
    /\ new_lines' = [new_lines EXCEPT ![w] = <<>>]
    /\ claimed_file' = [claimed_file EXCEPT ![w] = None]
    /\ geojson_file' = [geojson_file EXCEPT ![w] = <<>>]
    /\ failed' = [failed EXCEPT ![w] = FALSE]
    /\ rendered' = [rendered EXCEPT ![w] = FALSE]
    /\ pruned' = [pruned EXCEPT ![w] = FALSE]
    /\ buildResult' = [buildResult EXCEPT ![w] = "none"]
    /\ holding' = holding \ {w}
    /\ lockFile' = (lockFile /\ holding' # {})
    /\ UNCHANGED <<calcVars, files, ledgerVars, handedOut, stuck>>

\* The script is started again in a process that has ended (returned, raised
\* or was killed).  Nothing in the script looks at a lock file left behind.
run_again(w) ==
    /\ pc[w] \in {"exit", "raised", "dead"}
    /\ pc' = [pc EXCEPT ![w] = "build_job_list"]
    /\ waited' = [waited EXCEPT ![w] = 0]
    /\ new_lines' = [new_lines EXCEPT ![w] = <<>>]
    /\ claimed_file' = [claimed_file EXCEPT ![w] = None]
    /\ geojson_file' = [geojson_file EXCEPT ![w] = <<>>]
    /\ failed' = [failed EXCEPT ![w] = FALSE]
    /\ rendered' = [rendered EXCEPT ![w] = FALSE]
    /\ pruned' = [pruned EXCEPT ![w] = FALSE]
    /\ buildResult' = [buildResult EXCEPT ![w] = "none"]
    /\ holding' = holding \ {w}
    /\ UNCHANGED <<calcVars, files, ledgerVars, lockFile, handedOut, stuck>>

Next ==
    \E w \in Workers :
        \/ build_job_list_exists(w)
        \/ build_job_list_open(w)
        \/ build_job_list_write(w)
        \/ run_check_all_done(w)
        \/ claim_next_job_lock(w)
        \/ claim_next_job_read(w)
        \/ claim_next_job_open(w)
        \/ claim_next_job_write(w)
        \/ claim_next_job_unlock(w)
        \/ process_geojson_load(w)
        \/ process_geojson_outline(w)
        \/ process_geojson_render(w)
        \/ process_geojson_prune(w)
        \/ process_geojson_cleanup(w)
        \/ mark_job_done_lock(w)
        \/ mark_job_done_read(w)
        \/ mark_job_done_open(w)
        \/ mark_job_done_write(w)
        \/ mark_job_done_unlock(w)
        \/ run_again(w)

Spec == Init /\ [][Next]_vars

\* ------------------------------------------------------------------------
\* Workers that die
\* ------------------------------------------------------------------------
\* The process of a worker ends at any point of run (killed, or QGIS goes
\* down): it takes no further step, and what it left on disk stays.
\* The positions of run after claim_next_job returned a path and before the
\* call of mark_job_done for it.
BetweenClaimAndMark ==
    {"process_load", "process_outline", "process_render", "process_prune", "process_cleanup"}

crash(w) ==
    /\ pc[w] \notin {"exit", "raised", "dead"}
    /\ pc' = [pc EXCEPT ![w] = "dead"]
    /\ stuck' = IF pc[w] \in BetweenClaimAndMark
                THEN stuck \cup {basename(geojson_file[w])}
                ELSE stuck
    /\ UNCHANGED <<calcVars, files, ledgerVars, lockVars, waited, scanVars, jobVars,
                   buildResult, handedOut>>

NextCrash ==
    \/ Next
    \/ \E w \in Workers : crash(w)

SpecCrash == Init /\ [][NextCrash]_vars

\* ------------------------------------------------------------------------
\* Workers that run to the end: no process is killed or started again, and
\* every worker that can take a step of run takes one sooner or later.
\* ------------------------------------------------------------------------
run(w) ==
    \/ build_job_list_exists(w)
    \/ build_job_list_open(w)
    \/ build_job_list_write(w)
    \/ run_check_all_done(w)
    \/ claim_next_job_lock(w)
    \/ claim_next_job_read(w)
    \/ claim_next_job_open(w)
    \/ claim_next_job_write(w)
    \/ claim_next_job_unlock(w)
    \/ process_geojson_load(w)
    \/ process_geojson_outline(w)
    \/ process_geojson_render(w)
    \/ process_geojson_prune(w)
    \/ process_geojson_cleanup(w)
    \/ mark_job_done_lock(w)
    \/ mark_job_done_read(w)
    \/ mark_job_done_open(w)
    \/ mark_job_done_write(w)
    \/ mark_job_done_unlock(w)

NextFair == \E w \in Workers : run(w)

\* Each worker is a process of its own: one that can take a step of run
\* takes it sooner or later.
SpecFair == Init /\ [][NextFair]_vars /\ \A w \in Workers : WF_vars(run(w))

\* ========================================================================
\* get_group_key
\* ========================================================================
\* Python values of the attributes: None, a str (its characters), an int.
PyNone == [tag |-> "None", s |-> <<>>, n |-> 0]
PyStr(x) == [tag |-> "str", s |-> x, n |-> 0]
PyInt(k) == [tag |-> "int", s |-> <<>>, n |-> k]

\* The field is not among feat.fields().names().
NoField == [tag |-> "no field", s |-> <<>>, n |-> 0]

\* Attribute values the features of a source file carry.
TypeValues ==
    {NoField, PyNone, PyStr(<<>>), PyStr(<<"M", "T">>), PyStr(<<" ", "M", "T">>),
     PyStr(<<"M", "U">>), PyStr(<<"M", "U", "/", "M", "T">>),
     PyStr(<<"M", "T", "/", "M", "U">>), PyStr(<<"M", "U", "/", "K", "W">>),
     PyStr(<<"K", "W">>), PyStr(<<"K">>), PyStr(<<"X">>)}

MValues ==
    {NoField, PyNone, PyStr(<<>>), PyStr(<<"N", "o", "n", "e">>), PyInt(0), PyStr(<<"0">>),
     PyInt(5), PyStr(<<"5">>), PyStr(<<"0", "5">>), PyInt(8), PyStr(<<"x">>)}

BValues ==
    {NoField, PyNone, PyStr(<<>>), PyStr(<<"N", "o", "n", "e">>), PyInt(0), PyStr(<<"0">>),
     PyInt(3), PyStr(<<"x">>)}

KValues ==
    {NoField, PyNone, PyInt(0), PyStr(<<"0">>), PyInt(7), PyStr(<<"7">>)}

Features ==
    [Type : TypeValues, M : MValues, MN : MValues, B : BValues, K : KValues]

DigitChars == <<"0", "1", "2", "3", "4", "5", "6", "7", "8", "9">>

\* str.isdigit()
isdigit(x) ==
    /\ Len(x) > 0
    /\ \A i \in 1..Len(x) : \E d \in 1..10 : x[i] = DigitChars[d]

digit_value(c) == (CHOOSE d \in 1..10 : DigitChars[d] = c) - 1

\* int(x) of a digit string
RECURSIVE int(_)
int(x) ==
    IF x = <<>> THEN 0
    ELSE 10 * int(SubSeq(x, 1, Len(x) - 1)) + digit_value(x[Len(x)])

\* str(k) of an int that is not negative
RECURSIVE str_int(_)
str_int(k) ==
    IF k < 10 THEN <<DigitChars[k + 1]>>
    ELSE str_int(k \div 10) \o <<DigitChars[(k % 10) + 1]>>

\* A faulty str: the value is handed on as it is.
str_not_applied(x) == x

\* str(x)
str(x) ==
    CASE x.tag = "str" -> x
      [] x.tag = "int" -> PyStr(str_int(x.n))
      [] OTHER -> PyStr(<<"N", "o", "n", "e">>)

\* safe_val(field): feat[field] if the layer has the field, else None
safe_val(f, field) ==
    IF f[field] # NoField THEN f[field] ELSE PyNone

\* norm(x)
norm(x) ==
    IF x \in {PyNone, PyStr(<<>>), PyStr(<<"N", "o", "n", "e">>)} THEN PyNone
    ELSE IF x.tag = "str" /\ isdigit(x.s) THEN PyInt(int(x.s))
    ELSE x

\* x in [None, 0]
none_or_0(x) == x \in {PyNone, PyInt(0)}

\* A faulty test of B: only None counts as no B.
b_is_none(b_norm) == b_norm = PyNone

\* b_norm in [None, "", "None", 0, "0"]
b_blank(b_norm) ==
    b_norm \in {PyNone, PyStr(<<>>), PyStr(<<"N", "o", "n", "e">>), PyInt(0), PyStr(<<"0">>)}

\* A faulty test of the type: the K branch is never taken.
is_k_never(t) == FALSE

\* t == "K"
is_k(t) == t = <<"K">>

\* t in ("MU", "MU/MT", "MT/MU", "MU/KW", "KW")
is_mu(t) ==
    t \in {<<"M", "U">>, <<"M", "U", "/", "M", "T">>, <<"M", "T", "/", "M", "U">>,
           <<"M", "U", "/", "K", "W">>, <<"K", "W">>}

\* get_group_key(feat): the value the function returns.
get_group_key(f) ==
    LET t == IF safe_val(f, "Type") # PyNone THEN strip(str(safe_val(f, "Type")).s) ELSE <<>>
        m_norm == norm(safe_val(f, "M"))
        mn_norm == norm(safe_val(f, "MN"))
        b_norm == norm(safe_val(f, "B"))
        k_norm == norm(safe_val(f, "K"))
        zero == PyStr(<<"0">>)
        fallback == IF ~none_or_0(m_norm) THEN str(m_norm) ELSE zero
    IN IF t = <<"M", "T">>
       THEN IF none_or_0(m_norm) /\ none_or_0(mn_norm) THEN zero
            ELSE IF ~none_or_0(m_norm) /\ none_or_0(mn_norm) THEN str(m_norm)
            ELSE IF ~none_or_0(mn_norm) /\ none_or_0(m_norm) THEN str(mn_norm)
            ELSE IF m_norm # PyNone /\ mn_norm # PyNone /\ m_norm = mn_norm THEN str(m_norm)
            ELSE IF ~none_or_0(mn_norm)
                 THEN IF b_blank(b_norm) THEN str(mn_norm)
                      ELSE PyStr(str(b_norm).s \o <<"/">> \o str(mn_norm).s)
            ELSE IF ~none_or_0(m_norm) THEN str(m_norm)
            ELSE zero
       ELSE IF is_mu(t) /\ ~none_or_0(m_norm) THEN str(m_norm)
       ELSE IF is_k(t) /\ ~none_or_0(k_norm) THEN str(k_norm)
       ELSE fallback

\* The job queue at rest, while a calculation is followed on its own.
QueueIdle ==
    /\ files = <<>>
    /\ ledgerExists = FALSE
    /\ ledger = <<>>
    /\ lockFile = FALSE
    /\ pc = [w \in Workers |-> "build_job_list"]
    /\ waited = [w \in Workers |-> 0]
    /\ new_lines = [w \in Workers |-> <<>>]
    /\ claimed_file = [w \in Workers |-> None]
    /\ geojson_file = [w \in Workers |-> <<>>]
    /\ failed = [w \in Workers |-> FALSE]
    /\ rendered = [w \in Workers |-> FALSE]
    /\ pruned = [w \in Workers |-> FALSE]
    /\ holding = {}
    /\ buildResult = [w \in Workers |-> "none"]
    /\ handedOut = EmptyBag
    /\ seen = [f \in FileNames |-> {}]
    /\ stuck = {}

queueVars == <<files, ledgerExists, ledger, lockFile, pc, waited, new_lines, claimed_file,
               geojson_file, failed, rendered, pruned, holding, buildResult, handedOut, seen, stuck>>

\* process_geojson reads a feature of the source layer.
InitGroupKey ==
    /\ QueueIdle
    /\ TileCountIdle
    /\ OutlineIdle
    /\ TilesIdle
    /\ feat \in Features
    /\ group_key = Unset

\* attrs[gk_idx] = get_group_key(feat)
call_get_group_key ==
    /\ group_key = Unset
    /\ group_key' = get_group_key(feat)
    /\ UNCHANGED <<feat, outlineVars, tileVars, tileCountVars, queueVars>>

NextGroupKey == call_get_group_key

SpecGroupKey == InitGroupKey /\ [][NextGroupKey]_vars

\* ========================================================================
\* clean_outline_layer_batch / clean_outline_layer
\* ========================================================================
\* Geometries are made of axis-parallel rectangles on a small grid.  A ring is
\* a rectangle [x1, y1, x2, y2]; a polygon is the sequence of its rings, the
\* exterior ring first, the interior rings after it; a geometry is the
\* sequence of its polygons (one for a single-part geometry, none for an
\* empty one) and what isGeosValid answers for it.
Ring(x1, y1, x2, y2) == [x1 |-> x1, y1 |-> y1, x2 |-> x2, y2 |-> y2]
Geometry(multi, parts, valid) == [multi |-> multi, parts |-> parts, valid |-> valid]

\* Geometries the dissolved layers are made of: three nested rectangles, the
\* largest again with a hole, a two-part geometry whose bounding box is the
\* largest rectangle, a rectangle across the middle one, an invalid and an
\* empty geometry.
Geometries ==
    {Geometry(FALSE, <<  <<Ring(0, 0, 4, 4)>>  >>, TRUE),
     Geometry(FALSE, <<  <<Ring(1, 1, 3, 3)>>  >>, TRUE),
     Geometry(FALSE, <<  <<Ring(1, 1, 2, 2)>>  >>, TRUE),
     Geometry(FALSE, <<  <<Ring(0, 0, 4, 4), Ring(1, 1, 3, 3)>>  >>, TRUE),
     Geometry(TRUE,  <<  <<Ring(0, 0, 1, 1)>>, <<Ring(3, 3, 4, 4)>>  >>, TRUE),
     Geometry(FALSE, <<  <<Ring(2, 0, 4, 2)>>  >>, TRUE),
     Geometry(FALSE, <<  <<Ring(0, 0, 2, 2), Ring(0, 0, 1, 1)>>  >>, FALSE),
     Geometry(FALSE, << >>, TRUE)}

GroupKeys == {"1", "2"}

\* Largest number of polygons in the dissolved layer.
MaxFeatures == 3

\* The layers handed to the cleaner: features with ids in layer order.
OutlineLayers ==
    UNION {[1..n -> [group_key : GroupKeys, geometry : Geometries]] : n \in 0..MaxFeatures}

WithIds(fs) == [i \in 1..Len(fs) |-> [id |-> i, group_key |-> fs[i].group_key,
                                       geometry |-> fs[i].geometry]]

\* The unit squares of the grid a geometry covers.
RingCells(r) == {<<x, y>> : x \in r.x1..(r.x2 - 1), y \in r.y1..(r.y2 - 1)}

PolygonCells(poly) ==
    RingCells(poly[1]) \ UNION {RingCells(poly[k]) : k \in 2..Len(poly)}

GeometryCells(g) == UNION {PolygonCells(g.parts[k]) : k \in 1..Len(g.parts)}

\* QgsGeometry.isEmpty()
isEmpty(g) == g.parts = << >>

\* QgsGeometry.area()
area(g) == Cardinality(GeometryCells(g))

Min(S) == CHOOSE x \in S : \A y \in S : x <= y
Max(S) == CHOOSE x \in S : \A y \in S : x >= y

\* QgsGeometry.boundingBox(); the null rectangle for an empty geometry.
boundingBox(g) ==
    IF isEmpty(g) THEN Ring(0, 0, 0, 0)
    ELSE LET ext == {g.parts[k][1] : k \in 1..Len(g.parts)}
         IN Ring(Min({r.x1 : r \in ext}), Min({r.y1 : r \in ext}),
                 Max({r.x2 : r \in ext}), Max({r.y2 : r \in ext}))

\* QgsRectangle.contains(rect)
rect_contains(big, small) ==
    /\ small.x1 >= big.x1 /\ small.x2 <= big.x2
    /\ small.y1 >= big.y1 /\ small.y2 <= big.y2

\* A faulty exact test: the bounding boxes decide.
contains_by_bounding_box(gb, gs) ==
    rect_contains(boundingBox(gb), boundingBox(gs))

\* QgsGeometry.contains(geometry): no point of gs outside gb, and gs has points.
contains(gb, gs) ==
    /\ ~isEmpty(gs)
    /\ GeometryCells(gs) \subseteq GeometryCells(gb)

\* QgsGeometry.makeValid(): the repair, an external capability; it keeps the
\* rings and the result is valid.
makeValid(g) == [g EXCEPT !.valid = TRUE]

\* QgsGeometry.fromPolygonXY([poly[0]]) / fromMultiPolygonXY(exteriors): the
\* exterior ring of every part.
exterior_rings(g) ==
    [g EXCEPT !.parts = [k \in 1..Len(g.parts) |-> <<g.parts[k][1]>>]]

\* The first loop of clean_outline_layer_batch, for one geometry: empty
\* geometries are skipped, invalid ones repaired, the exterior rings kept.
reduce_batch(g) ==
    IF isEmpty(g) THEN g
    ELSE exterior_rings(IF ~g.valid THEN makeValid(g) ELSE g)

\* The first loop of clean_outline_layer, for one geometry.
reduce(g) ==
    IF isEmpty(g) THEN g ELSE exterior_rings(g)

\* sorted(arr, key=area): the stable sort, by insertion.
RECURSIVE sorted_by_area(_)
sorted_by_area(arr) ==
    IF Len(arr) <= 1 THEN arr
    ELSE LET init == sorted_by_area(SubSeq(arr, 1, Len(arr) - 1))
             last == arr[Len(arr)]
             k == Cardinality({i \in 1..Len(init) : area(init[i].geometry) <= area(last.geometry)})
         IN SubSeq(init, 1, k) \o <<last>> \o SubSeq(init, k + 1, Len(init))

\* A faulty order: the features are taken as the layer gives them.
not_sorted(arr) == arr

\* arr = sorted(arr, key=lambda f: f.geometry().area())
area_order(arr) == sorted_by_area(arr)

\* A faulty grouping: every feature is in every group.
same_group_always(f, gk) == TRUE

\* by_group.setdefault(f["group_key"], []).append(f)
same_group(f, gk) == f.group_key = gk

\* The ids clean_outline_layer_batch marks in the group gk of the features.
remove_ids_batch(feats, gk) ==
    LET arr == area_order(SelectSeq(feats, LAMBDA f : same_group(f, gk)))
    IN {arr[i].id : i \in {i \in 1..Len(arr) :
            \E j \in (i + 1)..Len(arr) :
                /\ rect_contains(boundingBox(arr[j].geometry), boundingBox(arr[i].geometry))
                /\ contains(arr[j].geometry, arr[i].geometry)}}

\* The ids clean_outline_layer marks.
remove_ids_pairs(feats) ==
    {feats[i].id : i \in {i \in 1..Len(feats) :
        \E j \in 1..Len(feats) :
            /\ i # j
            /\ feats[i].group_key = feats[j].group_key
            /\ contains(feats[j].geometry, feats[i].geometry)
            /\ area(feats[j].geometry) > area(feats[i].geometry)}}

\* clean_outline_layer_batch(layer): the features left in the layer and the
\* returned message.
clean_outline_layer_batch(feats) ==
    LET reduced == [i \in 1..Len(feats) |->
                       [feats[i] EXCEPT !.geometry = reduce_batch(feats[i].geometry)]]
        remove_ids == UNION {remove_ids_batch(reduced, gk) :
                                gk \in {reduced[i].group_key : i \in 1..Len(reduced)}}
    IN [layer |-> SelectSeq(reduced, LAMBDA f : f.id \notin remove_ids),
        msg |-> IF remove_ids # {}
                THEN [text |-> "Removed {} contained boundaries.",
                      count |-> str_int(Cardinality(remove_ids))]
                ELSE [text |-> "No contained boundaries removed.", count |-> << >>]]

\* clean_outline_layer(layer), the version of 30-7-25.
clean_outline_layer(feats) ==
    LET reduced == [i \in 1..Len(feats) |->
                       [feats[i] EXCEPT !.geometry = reduce(feats[i].geometry)]]
        remove_ids == remove_ids_pairs(reduced)
    IN [layer |-> SelectSeq(reduced, LAMBDA f : f.id \notin remove_ids),
        msg |-> IF remove_ids # {}
                THEN [text |-> "Removed contained boundaries.", count |-> << >>]
                ELSE [text |-> "No contained boundaries removed.", count |-> << >>]]

\* process_geojson has dissolved the layer by group_key and split it into
\* single parts.
InitOutline ==
    /\ QueueIdle
    /\ TileCountIdle
    /\ GroupKeyIdle
    /\ TilesIdle
    /\ \E fs \in OutlineLayers : dissolved = WithIds(fs)
    /\ outline_layer = Unset
    /\ clean_msg = Unset
    /\ cleaner = "none"

\* clean_msg = clean_outline_layer_batch(outline_layer)
call_clean_outline_layer_batch ==
    /\ cleaner = "none"
    /\ outline_layer' = clean_outline_layer_batch(dissolved).layer
    /\ clean_msg' = clean_outline_layer_batch(dissolved).msg
    /\ cleaner' = "clean_outline_layer_batch"
    /\ UNCHANGED <<dissolved, groupKeyVars, tileVars, tileCountVars, queueVars>>

\* clean_msg = clean_outline_layer(outline_layer)
call_clean_outline_layer ==
    /\ cleaner = "none"
    /\ outline_layer' = clean_outline_layer(dissolved).layer
    /\ clean_msg' = clean_outline_layer(dissolved).msg
    /\ cleaner' = "clean_outline_layer"
    /\ UNCHANGED <<dissolved, groupKeyVars, tileVars, tileCountVars, queueVars>>

NextOutline ==
    \/ call_clean_outline_layer_batch
    \/ call_clean_outline_layer

SpecOutline == InitOutline /\ [][NextOutline]_vars

\* ========================================================================
\* clean_tiles / is_blank_tile
\* ========================================================================
BLANK_TILE_SIZE_BYTES == 1800

\* Largest number of files in the tile directory.
MaxTiles == 3

\* Number of paths in one batch (CLEANUP_CHUNK in the code, 5000).
ChunkSize == 2

\* Number of threads of the pool (min(64, cpu_count * 4) in the code).
MaxWorkers == 2

\* A pixel after convert("RGBA"): whether a colour band is not zero, and
\* whether the alpha band is not zero.
Pixel(colour, alpha) == [colour |-> colour, alpha |-> alpha]

\* Images, two pixels each: all bands zero; transparent with a colour left
\* in one pixel; one opaque pixel; opaque.
BlankImage == <<Pixel(FALSE, FALSE), Pixel(FALSE, FALSE)>>

Images ==
    {BlankImage,
     <<Pixel(FALSE, FALSE), Pixel(TRUE, FALSE)>>,
     <<Pixel(FALSE, FALSE), Pixel(FALSE, TRUE)>>,
     <<Pixel(TRUE, TRUE), Pixel(TRUE, TRUE)>>}

\* File sizes in bytes, on both sides of the size gate.
Sizes == {BLANK_TILE_SIZE_BYTES, BLANK_TILE_SIZE_BYTES + 1}

\* A file of the directory: the ending of its name, its size, whether
\* os.path.getsize succeeds, whether Image.open can decode it and to which
\* pixels, whether os.remove succeeds, and whether it is still there.
TileFile(suffix, size, stat_ok, decodable, pixels, removable) ==
    [suffix |-> suffix, size |-> size, stat_ok |-> stat_ok, decodable |-> decodable,
     pixels |-> pixels, removable |-> removable, exists |-> TRUE]

\* Files the output directory holds when clean_tiles is called: written by
\* the renderer or left from before (os.makedirs(output_dir, exist_ok=True)).
TileFiles ==
    {TileFile(".png", sz, TRUE, TRUE, img, TRUE) : sz \in Sizes, img \in Images}
    \cup {TileFile(".PNG", BLANK_TILE_SIZE_BYTES, TRUE, TRUE, BlankImage, TRUE),
          TileFile(".jpg", BLANK_TILE_SIZE_BYTES, TRUE, TRUE, BlankImage, TRUE),
          TileFile(".png", BLANK_TILE_SIZE_BYTES, FALSE, TRUE, BlankImage, TRUE),
          TileFile(".png", BLANK_TILE_SIZE_BYTES, TRUE, FALSE, BlankImage, TRUE),
          TileFile(".png", BLANK_TILE_SIZE_BYTES, TRUE, TRUE, BlankImage, FALSE)}

TileDirectories == UNION {[1..n -> TileFiles] : n \in 0..MaxTiles}

\* fn.lower()
lower(suffix) == IF suffix = ".PNG" THEN ".png" ELSE suffix

\* fn.lower().endswith(".png")
is_png(f) == lower(f.suffix) = ".png"

\* diff.getbbox() is None, for diff = ImageChops.difference(rgba_img, blank):
\* the difference to an all-zero image is the image.  With alpha_only (the
\* default since Pillow 10) the box spans the pixels whose alpha is not zero,
\* without it the pixels with any band that is not zero.
getbbox_is_None(pixels, alphaOnly) ==
    \A k \in 1..Len(pixels) :
        IF alphaOnly THEN ~pixels[k].alpha
        ELSE ~pixels[k].alpha /\ ~pixels[k].colour

\* is_blank_tile(tile_path): an exception of os.path.getsize or of the
\* decoding answers False.
is_blank_tile(f, alphaOnly) ==
    IF ~f.stat_ok THEN FALSE
    ELSE IF f.size > BLANK_TILE_SIZE_BYTES THEN FALSE
    ELSE IF ~f.decodable THEN FALSE
    ELSE getbbox_is_None(f.pixels, alphaOnly)

\* A call of process_tile in the queue of the pool, one a thread is running,
\* and one that returned r.
Submitted == [state |-> "submitted", r |-> 0]
Running == [state |-> "running", r |-> 0]
Returned(r) == [state |-> "returned", r |-> r]

\* removed += (r or 0), over the results
RECURSIVE sum(_)
sum(rs) == IF rs = << >> THEN 0 ELSE rs[1].r + sum(Tail(rs))

\* A faulty slice: the last path of the batch is left out.
slice_one_short(s, a, b) ==
    SubSeq(s, a + 1, (IF b <= Len(s) THEN b ELSE Len(s)) - 1)

\* s[a:b]
slice(s, a, b) ==
    SubSeq(s, a + 1, IF b <= Len(s) THEN b ELSE Len(s))

\* process_geojson calls clean_tiles(output_dir) on what the directory holds.
InitTiles ==
    /\ QueueIdle
    /\ TileCountIdle
    /\ GroupKeyIdle
    /\ OutlineIdle
    /\ tile_files \in TileDirectories
    /\ alpha_only \in BOOLEAN
    /\ pngs = << >>
    /\ batch_i = 0
    /\ batch = << >>
    /\ tile_result = << >>
    /\ examined = [i \in 1..Len(tile_files) |-> 0]
    /\ removed = 0
    /\ pruner = "os.walk"

\* os.walk: the paths of the files whose name ends in .png, in walk order;
\* without any, clean_tiles returns.
clean_tiles_walk ==
    /\ pruner = "os.walk"
    /\ pngs' = SelectSeq([i \in 1..Len(tile_files) |-> i], LAMBDA i : is_png(tile_files[i]))
    /\ pruner' = IF pngs' = << >> THEN "returned" ELSE "batch"
    /\ UNCHANGED <<tile_files, alpha_only, batch_i, batch, tile_result, examined, removed,
                   groupKeyVars, outlineVars, tileCountVars, queueVars>>

\* for i in range(0, len(pngs), CLEANUP_CHUNK): the next batch is handed to a
\* new pool, or the loop is over and clean_tiles prints the number and returns.
clean_tiles_batch ==
    /\ pruner = "batch"
    /\ IF batch_i < Len(pngs)
       THEN /\ batch' = slice(pngs, batch_i, batch_i + ChunkSize)
            /\ tile_result' = [k \in 1..Len(batch') |-> Submitted]
            /\ pruner' = "pool"
       ELSE /\ pruner' = "returned"
            /\ UNCHANGED <<batch, tile_result>>
    /\ UNCHANGED <<tile_files, alpha_only, pngs, batch_i, examined, removed,
                   groupKeyVars, outlineVars, tileCountVars, queueVars>>

\* A free thread of the pool takes the next call from the queue.
process_tile_start(k) ==
    /\ pruner = "pool"
    /\ k <= Len(batch)
    /\ tile_result[k] = Submitted
    /\ \A j \in 1..(k - 1) : tile_result[j] # Submitted
    /\ Cardinality({j \in 1..Len(batch) : tile_result[j] = Running}) < MaxWorkers
    /\ tile_result' = [tile_result EXCEPT ![k] = Running]
    /\ examined' = [examined EXCEPT ![batch[k]] = @ + 1]
    /\ UNCHANGED <<tile_files, alpha_only, pngs, batch_i, batch, removed, pruner,
                   groupKeyVars, outlineVars, tileCountVars, queueVars>>

\* A faulty process_tile: the exception of os.remove leaves the function and
\* ends clean_tiles.
process_tile_remove_raises(k) ==
    /\ pruner = "pool"
    /\ k <= Len(batch)
    /\ tile_result[k] = Running
    /\ LET f == tile_files[batch[k]]
       IN IF is_blank_tile(f, alpha_only)
          THEN IF f.removable
               THEN /\ tile_files' = [tile_files EXCEPT ![batch[k]].exists = FALSE]
                    /\ tile_result' = [tile_result EXCEPT ![k] = Returned(1)]
                    /\ UNCHANGED pruner
               ELSE /\ pruner' = "raised"
                    /\ UNCHANGED <<tile_files, tile_result>>
          ELSE /\ tile_result' = [tile_result EXCEPT ![k] = Returned(0)]
               /\ UNCHANGED <<tile_files, pruner>>
    /\ UNCHANGED <<alpha_only, pngs, batch_i, batch, examined, removed,
                   groupKeyVars, outlineVars, tileCountVars, queueVars>>

\* process_tile(p) in a thread of the pool, for the k-th path of the batch: a
\* blank tile is removed and counts 1; a failure of os.remove is caught and
\* counts 0.
process_tile(k) ==
    /\ pruner = "pool"
    /\ k <= Len(batch)
    /\ tile_result[k] = Running
    /\ LET f == tile_files[batch[k]]
       IN IF is_blank_tile(f, alpha_only)
          THEN IF f.removable
               THEN /\ tile_files' = [tile_files EXCEPT ![batch[k]].exists = FALSE]
                    /\ tile_result' = [tile_result EXCEPT ![k] = Returned(1)]
               ELSE /\ tile_result' = [tile_result EXCEPT ![k] = Returned(0)]
                    /\ UNCHANGED tile_files
          ELSE /\ tile_result' = [tile_result EXCEPT ![k] = Returned(0)]
               /\ UNCHANGED tile_files
    /\ UNCHANGED <<alpha_only, pngs, batch_i, batch, examined, removed, pruner,
                   groupKeyVars, outlineVars, tileCountVars, queueVars>>

\* The pool is left once every call returned; the results of ex.map have
\* been added to removed, and the loop goes to the next i.
clean_tiles_collect ==
    /\ pruner = "pool"
    /\ \A k \in 1..Len(batch) : tile_result[k].state = "returned"
    /\ removed' = removed + sum(tile_result)
    /\ batch_i' = batch_i + ChunkSize
    /\ pruner' = "batch"
    /\ UNCHANGED <<tile_files, alpha_only, pngs, batch, tile_result, examined,
                   groupKeyVars, outlineVars, tileCountVars, queueVars>>

NextTiles ==
    \/ clean_tiles_walk
    \/ clean_tiles_batch
    \/ \E k \in 1..ChunkSize : process_tile_start(k)
    \/ \E k \in 1..ChunkSize : process_tile(k)
    \/ clean_tiles_collect

SpecTiles == InitTiles /\ [][NextTiles]_vars

\* ========================================================================
\* compute_total_tiles_wgs84 (compute_total_tiles of the older script has
\* the same arithmetic): the estimate of the number of tiles
\* ========================================================================
\* ZOOM_MIN..ZOOM_MAX is 10..20 in the scripts; the zoom levels are scaled.
MaxZoom == 3

ValueError == [tag |-> "ValueError", s |-> <<>>, n |-> 0]

\* Bounds in whole degrees of EPSG:4326.
Longitudes == {-180, -90, 0, 90, 180}
Latitudes == {-90, -85, -60, 0, 45, 85, 90}

\* layer_extent_wgs84 returns min(...) and max(...) of the corners.
Extents ==
    {[xmin |-> x1, xmax |-> x2, ymin |-> y1, ymax |-> y2] :
        <<x1, x2>> \in {p \in Longitudes \X Longitudes : p[1] <= p[2]},
        <<y1, y2>> \in {p \in Latitudes \X Latitudes : p[1] <= p[2]}}

\* math.log(math.tan(rad) + 1 / math.cos(rad)) raises "math domain error"
\* where the sum is not positive: in floating point tan(radians(-90)) is
\* -1 / cos(radians(-90)), the sum is 0.0.  At +90 the sum is a large
\* positive number and the call returns.
math_domain_error(lat) == lat <= -90

\* floor((1 - log(tan(rad) + 1 / cos(rad)) / pi) / 2 * 2 ** 6): the row at
\* zoom 6 as the floating-point expression gives it.  A product with
\* 2 ** zoom is exact, so the row at a zoom up to 6 is this row divided by
\* a power of two, rounded down.
MercatorRow64(lat) ==
    CASE lat = -85 -> 63
      [] lat = -60 -> 45
      [] lat = 0 -> 32
      [] lat = 45 -> 23
      [] lat = 85 -> 0
      [] lat = 90 -> -356

lat_to_tile_y(lat, zoom) ==
    (MercatorRow64(lat) * 2^zoom) \div 64

\* math.floor((x + 180) / 360 * (2 ** z))
lon_to_tile_x(x, z) ==
    ((x + 180) * 2^z) \div 360

\* the term added to total at zoom z
level_tiles(xmin, xmax, ymin, ymax, z) ==
    LET txmin == lon_to_tile_x(xmin, z)
        txmax == lon_to_tile_x(xmax, z)
        tymin == lat_to_tile_y(ymax, z)
        tymax == lat_to_tile_y(ymin, z)
    IN  (txmax - txmin + 1) * (tymax - tymin + 1)

\* the loop for z in range(zoom_min, zoom_max + 1), from z on
RECURSIVE total_from(_, _, _, _, _, _)
total_from(xmin, xmax, ymin, ymax, z, zmax) ==
    IF z > zmax
    THEN 0
    ELSE level_tiles(xmin, xmax, ymin, ymax, z)
             + total_from(xmin, xmax, ymin, ymax, z + 1, zmax)

compute_total_tiles_wgs84(xmin, xmax, ymin, ymax, zmin, zmax) ==
    IF zmin <= zmax /\ (math_domain_error(ymax) \/ math_domain_error(ymin))
    THEN ValueError
    ELSE PyInt(total_from(xmin, xmax, ymin, ymax, zmin, zmax))

\* process_geojson has the extent of the outline layer and a zoom range.
InitTileCount ==
    /\ QueueIdle
    /\ GroupKeyIdle
    /\ OutlineIdle
    /\ TilesIdle
    /\ extent \in Extents
    /\ zoom_min \in 0..MaxZoom
    /\ zoom_max \in 0..MaxZoom
    /\ tiles_est = Unset

call_compute_total_tiles_wgs84 ==
    /\ tiles_est = Unset
    /\ tiles_est' = compute_total_tiles_wgs84(extent.xmin, extent.xmax, extent.ymin,
                                              extent.ymax, zoom_min, zoom_max)
    /\ UNCHANGED <<extent, zoom_min, zoom_max, groupKeyVars, outlineVars, tileVars,
                   queueVars>>

NextTileCount == call_compute_total_tiles_wgs84

SpecTileCount == InitTileCount /\ [][NextTileCount]_vars

\* ========================================================================
\* Properties
\* ========================================================================
Pending == JOB_STATUS_PENDING
InProgress == JOB_STATUS_IN_PROGRESS
Done == JOB_STATUS_DONE

\* The ledger holds entries only: every line is <filename>,<STATUS>\n for a
\* file name of the folder universe and one of the three statuses.
EntryLines ==
    {format_line(f, st) : f \in FileNames, st \in {Pending, InProgress, Done}}

WellFormed(content) ==
    LET lines == readlines(content) IN \A i \in 1..Len(lines) : lines[i] \in EntryLines

\* C1: no file name is returned by two claim_next_job calls, whatever the
\* number of workers claiming on the folder.
C1_NoFilenameClaimedTwice ==
    \A e \in BagToSet(handedOut) : CopiesIn(e, handedOut) <= 1

\* C2: at most one worker holds the lock: from a successful atomic_lock of a
\* worker to its atomic_unlock no atomic_lock of another worker succeeds, and
\* the lock file exists while it is held.
C2_AtMostOneLockHolder ==
    /\ Cardinality(holding) <= 1
    /\ holding # {} => lockFile

\* C2 witness: one worker holds the lock while another has polled in vain.
C2_Witness ==
    \E w \in holding : \E v \in Workers \ {w} :
        pc[v] \in {"claim_next_job", "mark_job_done"} /\ waited[v] > 0

\* C3: every write to the ledger file (creation, truncation, new content),
\* by any operation of any worker, is a step of a worker that holds the lock.
C3_LedgerWrittenOnlyUnderLock ==
    [][(ledger' # ledger \/ ledgerExists' # ledgerExists)
          => \E w \in holding : pc'[w] # pc[w]]_vars

\* The status changes of a job: entered as Pending, Pending to InProgress,
\* InProgress to Done.
AllowedEdges ==
    {<<{}, {Pending}>>, <<{Pending}, {InProgress}>>, <<{InProgress}, {Done}>>}

\* C4: under any interleaving of the workers a job has one status, and its
\* status moves only from Pending to InProgress and from InProgress to Done.
C4_StatusOrder ==
    [][\A f \in FileNames :
          /\ Cardinality(seen'[f]) <= 1
          /\ seen'[f] # seen[f] => <<seen[f], seen'[f]>> \in AllowedEdges]_vars

\* C5: a worker whose processing of a claimed job failed leaves the job
\* InProgress: once it is back at the loop test the job is not Done.
C5_FailedJobNotMarkedDone ==
    \A w \in Workers :
        (failed[w] /\ pc[w] = "check_all_done")
            => StatusesOf(ledger, basename(geojson_file[w])) \subseteq {InProgress}

\* C6: an entry becomes Done only in a worker whose pruning of the job has
\* finished, and pruning runs only after the renderer returned without error.
C6_DoneOnlyAfterPruning ==
    [][\A w \in Workers :
          /\ (/\ pc[w] = "mark_write" /\ pc'[w] = "mark_unlock"
              /\ \E f \in FileNames : Done \in seen'[f] /\ Done \notin seen[f])
                => pruned[w]
          /\ pc'[w] = "process_prune" => rendered'[w]
          /\ pruned'[w] => rendered'[w]]_vars

\* C7: build_job_list leaves an existing ledger as it is (existence, lines,
\* statuses, order) and goes on to the loop; on an absent ledger it goes on
\* to write, and what it writes into the file it created is one Pending
\* entry per globbed file, in glob order.
C7_BuildJobListIdempotent ==
    [][\A w \in Workers :
          /\ (pc[w] = "build_job_list" /\ pc'[w] # pc[w] /\ ledgerExists)
                => /\ ledgerExists' /\ ledger' = ledger
                   /\ pc'[w] = "check_all_done"
          /\ (pc[w] = "build_job_list" /\ pc'[w] # pc[w] /\ ~ledgerExists)
                => pc'[w] = "build_open" /\ ledger' = ledger /\ ~ledgerExists'
          /\ (pc[w] = "build_write" /\ pc'[w] # pc[w] /\ ledger = <<>>)
                => LET lines == readlines(ledger')
                   IN /\ Len(lines) = Len(files)
                      /\ \A i \in 1..Len(files) :
                            /\ EntryName(lines[i]) = files[i]
                            /\ EntryStatus(lines[i]) = Pending
                            /\ lines[i] \in EntryLines]_vars

\* C7 witness: one worker wrote the ledger, a later build_job_list of another
\* worker returned without writing, and the ledger holds a Done entry.
C7_Witness ==
    \E w, v \in Workers :
        /\ buildResult[w] = "noop" /\ pc[w] = "check_all_done"
        /\ buildResult[v] = "wrote"
        /\ WellFormed(ledger)
        /\ \E i \in 1..Len(readlines(ledger)) : EntryStatus(readlines(ledger)[i]) = Done

\* What claim_next_job is to make of the lines `old`: the new lines and the
\* returned name.
ClaimPost(old, new, ret) ==
    LET P == {i \in 1..Len(old) : EntryStatus(old[i]) = Pending}
    IN IF P = {}
       THEN new = old /\ ret = None
       ELSE LET k == CHOOSE i \in P : \A j \in P : i <= j
            IN /\ Len(new) = Len(old)
               /\ \A i \in 1..Len(old) : i # k => new[i] = old[i]
               /\ EntryName(new[k]) = EntryName(old[k])
               /\ EntryStatus(new[k]) = InProgress
               /\ ret = Some(EntryName(old[k]))

\* C8: on a ledger of entries claim_next_job turns the first Pending line,
\* in ledger order, into InProgress and returns its file name; without a
\* Pending line it returns None and the lines are those read.  All other
\* lines, the file names and the order stay.
C8_ClaimNextJobFirstPending ==
    [][\A w \in Workers :
          (pc[w] = "claim_read" /\ pc'[w] # pc[w] /\ ledgerExists /\ WellFormed(ledger))
             => /\ pc'[w] = "claim_open"
                /\ ClaimPost(readlines(ledger), new_lines'[w], claimed_file'[w])]_vars

\* What mark_job_done is to make of the lines `old` for the path `filename`.
MarkPost(old, new, filename) ==
    /\ Len(new) = Len(old)
    /\ \A i \in 1..Len(old) :
          IF EntryName(old[i]) = basename(filename)
          THEN EntryName(new[i]) = EntryName(old[i]) /\ EntryStatus(new[i]) = Done
          ELSE new[i] = old[i]

\* C9: on a ledger of entries mark_job_done sets the entries whose file
\* name is the base name of its argument to Done and leaves every other
\* line, the number of lines and their order as read.
C9_MarkDoneFrame ==
    [][\A w \in Workers :
          (pc[w] = "mark_read" /\ pc'[w] # pc[w] /\ ledgerExists /\ WellFormed(ledger))
             => /\ pc'[w] = "mark_open"
                /\ MarkPost(readlines(ledger), new_lines'[w], geojson_file[w])]_vars

LockPcs == {"claim_next_job", "mark_job_done"}

\* C11: a worker polling a held lock counts its failed attempts; the attempt
\* that brings the count to timeout / 0.25 s raises and no later attempt is
\* made.  A failed attempt leaves the lock file, its holder and the ledger as
\* they are, and the worker that raised is stopped: it takes no further step
\* of run, only a new start of the script moves it.
C11_LockTimeoutRaises ==
    [][\A w \in Workers :
          /\ (pc[w] \in LockPcs /\ lockFile /\ waited'[w] # waited[w])
                => /\ waited'[w] = waited[w] + 1
                   /\ waited'[w] <= TimeoutPolls
                   /\ pc'[w] = IF waited'[w] = TimeoutPolls THEN "raised" ELSE pc[w]
                   /\ lockFile' /\ holding' = holding
                   /\ ledger' = ledger /\ ledgerExists' = ledgerExists
          /\ (pc[w] \in LockPcs /\ lockFile /\ pc'[w] # pc[w])
                => pc'[w] = "raised" /\ waited'[w] = TimeoutPolls
          /\ (pc[w] = "raised" /\ pc'[w] # pc[w]) => pc'[w] = "build_job_list"]_vars

\* C11 witness: a worker raised from atomic_lock after the full number of
\* polls while the lock is held by another worker.
C11_Witness ==
    \E w \in Workers : \E v \in holding \ {w} :
        pc[w] = "raised" /\ waited[w] = TimeoutPolls /\ lockFile /\ pc[v] # "raised"

\* The lock file exists and the worker that created it has stopped without
\* removing it (its process ended, or was started again since).
Orphaned ==
    lockFile /\ \A w \in holding : pc[w] \in {"raised", "dead"}

\* C12: once the holder of the lock has stopped, the lock file stays: no
\* worker removes it, no atomic_lock of any worker succeeds, and no step of
\* claim_next_job or mark_job_done changes the ledger (only build_job_list,
\* which takes no lock, still writes).
C12_OrphanedLockStays ==
    [][Orphaned =>
          /\ lockFile' /\ Orphaned'
          /\ holding' \subseteq holding
          /\ \A w \in Workers :
                pc'[w] \notin {"claim_read", "claim_open", "claim_write", "claim_unlock",
                              "mark_read", "mark_open", "mark_write", "mark_unlock"}
          /\ (ledger' # ledger \/ ledgerExists' # ledgerExists)
                => \E w \in Workers :
                      pc[w] \in {"build_open", "build_write"} /\ pc'[w] # pc[w]]_vars

\* C12 witness: a worker was killed holding the lock, another worker has
\* since run into the timeout, and a Pending entry is left in the ledger.
C12_Witness ==
    \E w \in holding : \E v \in Workers \ {w} :
        /\ pc[w] = "dead" /\ lockFile
        /\ pc[v] = "raised" /\ waited[v] = TimeoutPolls
        /\ ledgerExists /\ WellFormed(ledger)
        /\ \E i \in 1..Len(readlines(ledger)) : EntryStatus(readlines(ledger)[i]) = Pending

\* The positions of run inside process_geojson.
ProcessPcs ==
    {"process_load", "process_outline", "process_render", "process_prune", "process_cleanup"}

\* C13: no step of process_geojson ends run: whatever fails in it, the worker
\* comes back to run and goes on with its loop; and a worker leaves the loop
\* by an exception only from atomic_lock.
C13_OnlyLockFailureStopsWorker ==
    [][\A w \in Workers :
          /\ pc[w] \in ProcessPcs => pc'[w] \in ProcessPcs \cup {"mark_job_done"}
          /\ (pc'[w] = "raised" /\ pc[w] # "raised") => pc[w] \in LockPcs]_vars

\* The features that carry the same attribute values as f: a field the layer
\* lacks reads as None.
SameValues(f) ==
    LET alike(x) == IF x \in {NoField, PyNone} THEN {NoField, PyNone} ELSE {x}
    IN [Type : alike(f.Type), M : alike(f.M), MN : alike(f.MN), B : alike(f.B), K : alike(f.K)]

\* C14: get_group_key returns a key for every combination of Type, M, MN, B
\* and K: the key is a str, never None or a number, and not the empty
\* string; features with the same attribute values get the same key.
C14_GroupKeyTotal ==
    group_key # Unset =>
        /\ group_key.tag = "str"
        /\ Len(group_key.s) > 0
        /\ \A g \in SameValues(feat) : get_group_key(g) = group_key

\* C14 witness: a feature without any of the five fields got the key "0",
\* or one whose M is a text that is no number got that text.
C14_Witness ==
    \/ /\ feat # Unset /\ \A field \in {"Type", "M", "MN", "B", "K"} : feat[field] = NoField
       /\ group_key = PyStr(<<"0">>)
    \/ /\ feat # Unset /\ feat.Type = PyNone /\ feat.M = PyStr(<<"x">>)
       /\ group_key = PyStr(<<"x">>)

\* The attribute as the claims read it: a digit string stands for its number;
\* no field, None, the blank string, "None" and the number 0 are no value.
Code(x) ==
    IF x.tag = "str" /\ isdigit(x.s) THEN PyInt(int(x.s)) ELSE x

Present(x) ==
    Code(x) \notin {NoField, PyNone, PyStr(<<>>), PyStr(<<"N", "o", "n", "e">>), PyInt(0)}

\* The string form of a value that is present.
Text(x) ==
    IF Code(x).tag = "int" THEN str_int(Code(x).n) ELSE x.s

\* The Type of the feature, without blanks around it.
TypeOf(f) ==
    IF f.Type.tag = "str" THEN strip(f.Type.s) ELSE <<>>

\* C15: for Type "MT" the key is "0" when neither M nor MN has a value, the
\* one that has a value when only one has, that value when both have the
\* same, and when they differ MN, preceded by B and "/" when B has a value.
C15_GroupKeyMT ==
    (group_key # Unset /\ TypeOf(feat) = <<"M", "T">>) =>
        group_key.s =
            (IF ~Present(feat.M) /\ ~Present(feat.MN) THEN <<"0">>
             ELSE IF ~Present(feat.MN) THEN Text(feat.M)
             ELSE IF ~Present(feat.M) THEN Text(feat.MN)
             ELSE IF Code(feat.M) = Code(feat.MN) THEN Text(feat.M)
             ELSE IF ~Present(feat.B) THEN Text(feat.MN)
             ELSE Text(feat.B) \o <<"/">> \o Text(feat.MN))

\* C15 witness: Type MT, M = 5, MN = 8 and B = 3 gave "3/8".
C15_Witness ==
    /\ feat # Unset /\ TypeOf(feat) = <<"M", "T">>
    /\ feat.M = PyInt(5) /\ feat.MN = PyInt(8) /\ feat.B = PyInt(3)
    /\ group_key = PyStr(<<"3", "/", "8">>)

\* C16: for a Type other than "MT" the key is M when Type is one of MU,
\* MU/MT, MT/MU, MU/KW, KW and M has a value, K when Type is "K" and K has a
\* value, and in every other case M when it has a value, else "0".
C16_GroupKeyOtherTypes ==
    (group_key # Unset /\ TypeOf(feat) # <<"M", "T">>) =>
        group_key.s =
            (IF is_mu(TypeOf(feat)) /\ Present(feat.M) THEN Text(feat.M)
             ELSE IF TypeOf(feat) = <<"K">> /\ Present(feat.K) THEN Text(feat.K)
             ELSE IF Present(feat.M) THEN Text(feat.M)
             ELSE <<"0">>)

\* C16 witness: Type K without a K and with M = 5 gave "5", and Type K with
\* K = "7" gave "7".
C16_Witness ==
    /\ feat # Unset /\ feat.Type = PyStr(<<"K">>)
    /\ \/ ~Present(feat.K) /\ feat.M = PyInt(5) /\ group_key = PyStr(<<"5">>)
       \/ feat.K = PyStr(<<"7">>) /\ feat.M = PyInt(5) /\ group_key = PyStr(<<"7">>)

\* The outline of a geometry: the exterior ring of each of its parts.
Outline(g) == [k \in 1..Len(g.parts) |-> <<g.parts[k][1]>>]

OutlineCells(g) == UNION {RingCells(g.parts[k][1]) : k \in 1..Len(g.parts)}

\* The outline of a lies fully within the outline of b.
Within(a, b) == OutlineCells(a) # {} /\ OutlineCells(a) \subseteq OutlineCells(b)

StrictlyWithin(a, b) == Within(a, b) /\ OutlineCells(a) # OutlineCells(b)

\* The ids of the dissolved layer the cleaner left, and those it removed.
SurvivorIds == {outline_layer[k].id : k \in 1..Len(outline_layer)}
RemovedIds == (1..Len(dissolved)) \ SurvivorIds

\* C17: a polygon is removed only when a polygon of its own group_key
\* contains it; one that lies only within polygons of other keys stays.
C17_NoRemovalAcrossGroups ==
    cleaner # "none" =>
        \A i \in RemovedIds :
            \E j \in (1..Len(dissolved)) \ {i} :
                /\ dissolved[j].group_key = dissolved[i].group_key
                /\ Within(dissolved[i].geometry, dissolved[j].geometry)

\* C17 witness: a polygon lies strictly within a polygon of the other key,
\* within none of its own key, and the cleaner left both.
C17_Witness ==
    /\ cleaner # "none"
    /\ \E i, j \in SurvivorIds :
          /\ dissolved[i].group_key # dissolved[j].group_key
          /\ StrictlyWithin(dissolved[i].geometry, dissolved[j].geometry)

\* The polygons of key gk are a chain: of any two, one lies strictly within
\* the other.
IsChain(gk) ==
    LET P == {i \in 1..Len(dissolved) : dissolved[i].group_key = gk}
    IN /\ P # {}
       /\ \A i, j \in P :
             i # j => \/ StrictlyWithin(dissolved[i].geometry, dissolved[j].geometry)
                      \/ StrictlyWithin(dissolved[j].geometry, dissolved[i].geometry)

\* C18: of a group that is a chain of strictly nested outlines, in whatever
\* order the layer holds them, clean_outline_layer_batch leaves the outermost
\* only, and its message carries the number of polygons it removed.
C18_NestedChainLeavesOutermost ==
    cleaner = "clean_outline_layer_batch" =>
        \A gk \in GroupKeys :
            IsChain(gk) =>
                LET P == {i \in 1..Len(dissolved) : dissolved[i].group_key = gk}
                    n == Cardinality(RemovedIds)
                IN /\ Cardinality(P \cap SurvivorIds) = 1
                   /\ \A i \in P \cap SurvivorIds : \A j \in P \ {i} :
                         StrictlyWithin(dissolved[j].geometry, dissolved[i].geometry)
                   /\ IF n > 0
                      THEN clean_msg = [text |-> "Removed {} contained boundaries.",
                                        count |-> str_int(n)]
                      ELSE clean_msg = [text |-> "No contained boundaries removed.",
                                        count |-> << >>]

\* C18 witness: three nested rectangles of one key, the outermost first in
\* the layer and the innermost last; the outermost is left and the message
\* says 2.
C18_Witness ==
    /\ cleaner = "clean_outline_layer_batch"
    /\ Len(dissolved) = 3 /\ IsChain(dissolved[1].group_key)
    /\ dissolved[2].group_key = dissolved[1].group_key
    /\ dissolved[3].group_key = dissolved[1].group_key
    /\ StrictlyWithin(dissolved[2].geometry, dissolved[1].geometry)
    /\ StrictlyWithin(dissolved[3].geometry, dissolved[2].geometry)
    /\ SurvivorIds = {1}
    /\ clean_msg.count = <<"2">>

\* C19: after cleaning, every removed polygon lies within a polygon of its
\* key that was left, and every polygon left is the polygon of the dissolved
\* layer with that id, with its key and with the exterior rings of its parts
\* as its geometry; the order of the layer is kept.
C19_RemovedAreContainedSurvivorsUnaltered ==
    cleaner # "none" =>
        /\ \A i \in RemovedIds :
              \E k \in 1..Len(outline_layer) :
                  /\ outline_layer[k].group_key = dissolved[i].group_key
                  /\ OutlineCells(dissolved[i].geometry) # {}
                  /\ OutlineCells(dissolved[i].geometry)
                        \subseteq GeometryCells(outline_layer[k].geometry)
        /\ \A k \in 1..Len(outline_layer) :
              LET s == outline_layer[k]
              IN /\ s.id \in 1..Len(dissolved)
                 /\ s.group_key = dissolved[s.id].group_key
                 /\ s.geometry.parts = Outline(dissolved[s.id].geometry)
                 /\ s.geometry.multi = dissolved[s.id].geometry.multi
        /\ \A k, l \in 1..Len(outline_layer) : k < l => outline_layer[k].id < outline_layer[l].id

\* C19 witness: a polygon with a hole is left without the hole, and a
\* polygon that lay in the hole was removed.
C19_Witness ==
    /\ cleaner # "none"
    /\ \E i \in SurvivorIds : \E j \in RemovedIds :
          /\ Len(dissolved[i].geometry.parts) = 1
          /\ Len(dissolved[i].geometry.parts[1]) = 2
          /\ ~isEmpty(dissolved[j].geometry)
          /\ GeometryCells(dissolved[j].geometry) \cap GeometryCells(dissolved[i].geometry) = {}

\* Every pixel of the tile is transparent.
FullyTransparent(f) == \A k \in 1..Len(f.pixels) : ~f.pixels[k].alpha

\* C20: when clean_tiles has returned, every .png tile that can be decoded
\* and removed is gone if all its pixels are transparent and still there if
\* one pixel is not, whatever its file size.
C20_BlankTilesDeletedOthersKept ==
    pruner = "returned" =>
        \A i \in 1..Len(tile_files) :
            (/\ is_png(tile_files[i]) /\ tile_files[i].stat_ok
             /\ tile_files[i].decodable /\ tile_files[i].removable)
                => (tile_files[i].exists <=> ~FullyTransparent(tile_files[i]))

\* A file on which os.path.getsize, the decoding or os.remove fails.
Failing(f) == ~f.stat_ok \/ ~f.decodable \/ ~f.removable

\* C21: no failure on a tile ends clean_tiles.  A tile on which the size
\* read, the decoding or the removal fails stays in the directory and its
\* call returns 0; when clean_tiles returns, every .png of the directory,
\* in the batch of the failing tile and in the later batches, has been
\* handed to process_tile.
C21_TileFailuresSwallowed ==
    /\ pruner \in {"none", "os.walk", "batch", "pool", "returned"}
    /\ \A i \in 1..Len(tile_files) : Failing(tile_files[i]) => tile_files[i].exists
    /\ pruner = "pool" =>
          \A k \in 1..Len(batch) :
              (tile_result[k].state = "returned" /\ Failing(tile_files[batch[k]]))
                  => tile_result[k].r = 0
    /\ pruner = "returned" =>
          \A i \in 1..Len(tile_files) : is_png(tile_files[i]) => examined[i] = 1

\* C21 witness: the first tile cannot be removed, the second cannot be
\* decoded, the third, in the next batch, is blank; clean_tiles returned, the
\* third is gone and the number is 1.
C21_Witness ==
    /\ pruner = "returned" /\ Len(tile_files) = 3 /\ Len(pngs) = 3
    /\ ~tile_files[1].removable /\ tile_files[1].exists
    /\ ~tile_files[2].decodable /\ tile_files[2].exists
    /\ ~tile_files[3].exists
    /\ removed = 1

\* C22: no file is handed to process_tile twice; when clean_tiles returns
\* every .png of the directory was handed to it once, no other file was, and
\* the number it prints is the number of files it removed.
C22_EachTileOnceCountExact ==
    /\ \A i \in 1..Len(tile_files) : examined[i] <= 1
    /\ pruner = "returned" =>
          /\ \A i \in 1..Len(tile_files) :
                examined[i] = IF is_png(tile_files[i]) THEN 1 ELSE 0
          /\ removed = Cardinality({i \in 1..Len(tile_files) : ~tile_files[i].exists})

\* C22 witness: in a batch of two blank tiles, with a third tile waiting for
\* the next batch, the second call removed its tile and returned while the
\* first was still running.
C22_Witness ==
    /\ pruner = "pool" /\ Len(batch) = 2 /\ Len(pngs) = 3
    /\ tile_result[1] = Running /\ tile_result[2] = Returned(1)
    /\ ~tile_files[batch[2]].exists /\ tile_files[batch[1]].exists

\* The estimate of a call that covers this one: the same zoom range and an
\* extent that contains extent, or the same extent, the same zoom_min and a
\* zoom_max that is not smaller.
Widened ==
    {compute_total_tiles_wgs84(e.xmin, e.xmax, e.ymin, e.ymax, zoom_min, zoom_max) :
        e \in {w \in Extents : /\ w.xmin <= extent.xmin /\ extent.xmax <= w.xmax
                               /\ w.ymin <= extent.ymin /\ extent.ymax <= w.ymax}}
    \cup
    {compute_total_tiles_wgs84(extent.xmin, extent.xmax, extent.ymin, extent.ymax,
                               zoom_min, z) : z \in zoom_max..MaxZoom}

\* Among the calls that return: every level adds at least 1 and a call
\* that covers this one returns at least as much.
MonotoneWhereReturned ==
    tiles_est.tag = "int" =>
        /\ \A z \in zoom_min..zoom_max :
              level_tiles(extent.xmin, extent.xmax, extent.ymin, extent.ymax, z) >= 1
        /\ \A t \in Widened : t.tag = "int" => t.n >= tiles_est.n

\* C23: the estimate is a number for every extent with xmin <= xmax and
\* ymin <= ymax, every level of the zoom range adds at least 1 to it, and
\* it does not decrease when zoom_max grows or when the extent widens.
C23_EstimateMonotone ==
    tiles_est # Unset =>
        /\ tiles_est.tag = "int"
        /\ \A t \in Widened : t.tag = "int"
        /\ MonotoneWhereReturned

\* The jobs of the ledger that are not Done, by the statuses the last
\* complete write of the ledger gave them.
NotDoneJobs ==
    {f \in FileNames : seen[f] # {} /\ seen[f] # {Done}}

InBuildJobList(w) == pc[w] \in {"build_job_list", "build_open", "build_write"}

\* C24: when the loop test of a worker answers that all is done and the
\* worker exits, the ledger is absent or every job of the ledger is Done,
\* also while another worker is rewriting the ledger in claim_next_job or
\* mark_job_done.  (Exits while a worker is still building the ledger are
\* left aside: that write is the subject of C3.)
C24_ExitOnlyWhenAllDone ==
    [][\A w \in Workers :
          (/\ pc[w] = "check_all_done" /\ pc'[w] = "exit"
           /\ \A v \in Workers : ~InBuildJobList(v))
              => (~ledgerExists \/ NotDoneJobs = {})]_vars

\* The positions of run inside claim_next_job and mark_job_done, from the
\* call of atomic_lock to the return.
LockedCallPcs ==
    LockPcs \cup {"claim_read", "claim_open", "claim_write", "claim_unlock",
                  "mark_read", "mark_open", "mark_write", "mark_unlock"}

\* C25: a call of claim_next_job or mark_job_done that took the lock gives
\* it back before it ends, by a return or by an exception: a worker that is
\* outside these calls holds no lock, and when no worker is inside one of
\* them the lock file is absent.
C25_LockReleasedOnEveryPath ==
    /\ \A w \in holding : pc[w] \in LockedCallPcs
    /\ (\A w \in Workers : pc[w] \notin LockedCallPcs) => ~lockFile

\* C26: a job whose worker died between the return of claim_next_job and
\* the call of mark_job_done stays InProgress from then on: every later
\* write of the ledger has it InProgress, claim_next_job of no worker (a
\* restarted one included) returns it again, and no worker finds all done
\* and exits.
C26_StuckJobStaysInProgress ==
    [][\A f \in stuck :
          /\ seen'[f] = {InProgress}
          /\ CopiesIn(f, handedOut') = CopiesIn(f, handedOut)
          /\ \A v \in Workers : pc'[v] = "exit" => pc[v] = "exit"]_vars

\* The worker left atomic_lock by its timeout.
TimedOut(w) == pc[w] = "raised" /\ waited[w] >= TimeoutPolls

\* Every file of the folder has its entry Done in the ledger and every
\* worker has left the loop of run by its test.
AllJobsDoneAllExited ==
    /\ ledgerExists
    /\ \A i \in 1..Len(files) : StatusesOf(ledger, files[i]) = {Done}
    /\ \A w \in Workers : pc[w] = "exit"

\* C27: when no worker is killed and no atomic_lock runs into its timeout,
\* fair scheduling of the workers brings every job to Done and every
\* worker out of its loop.
C27_AllJobsDoneAllExit ==
    ([](\A w \in Workers : ~TimedOut(w))) => <>AllJobsDoneAllExited

====
